---- MODULE Spec2Model ----
(***************************************************************************)
(* Model of the judge orchestrator of judge-v3                             *)
(* (src/daemon/judge/judger-base.ts): the subtask dependency sort, the     *)
(* score calculator, the testcase cache and the subtask runners, and of    *)
(* the diagnostics driver of the standard judger (StandardJudger in        *)
(* src/daemon/config.ts), as a state machine whose steps are the           *)
(* synchronous segments between two awaits of the JavaScript code.         *)
(***************************************************************************)
EXTENDS Integers, Sequences, FiniteSets, TLC

(***************************************************************************)
(* JavaScript numbers.  A value is a record [k, n, d]:                     *)
(*   k = "num"   the rational n/d (d > 0, lowest terms)                    *)
(*   k = "nan"   NaN                                                       *)
(*   k = "inf"   +Infinity (n = 1) or -Infinity (n = -1)                   *)
(*   k = "null"  null                                                      *)
(*   k = "undef" undefined                                                 *)
(* Doubles are modelled as exact rationals.                                *)
(***************************************************************************)
RECURSIVE GCD(_, _)
GCD(a, b) == IF b = 0 THEN a ELSE GCD(b, a % b)

Abs(x) == IF x < 0 THEN -x ELSE x

Sign(x) == IF x < 0 THEN -1 ELSE IF x > 0 THEN 1 ELSE 0

Num(n, d) ==
    LET s == IF d < 0 THEN -1 ELSE 1
        g == GCD(Abs(n), Abs(d))
    IN  [k |-> "num", n |-> (s * n) \div g, d |-> (s * d) \div g]

NaN == [k |-> "nan", n |-> 0, d |-> 1]

Null == [k |-> "null", n |-> 0, d |-> 1]

Undefined == [k |-> "undef", n |-> 0, d |-> 1]

Infinity(sgn) == [k |-> "inf", n |-> sgn, d |-> 1]

Zero == Num(0, 1)

One == Num(1, 1)

\* ToNumber: null -> 0, undefined -> NaN.
ToNumber(x) ==
    IF x.k = "null" THEN Zero
    ELSE IF x.k = "undef" THEN NaN
    ELSE x

\* isNaN(x)
IsNaN(x) == ToNumber(x).k = "nan"

\* x * y
Mul(x, y) ==
    LET a == ToNumber(x)
        b == ToNumber(y)
    IN  IF a.k = "nan" \/ b.k = "nan" THEN NaN
        ELSE IF a.k = "inf" \/ b.k = "inf"
             THEN IF a.n = 0 \/ b.n = 0 THEN NaN
                  ELSE Infinity(Sign(a.n) * Sign(b.n))
        ELSE Num(a.n * b.n, a.d * b.d)

\* x / y
Div(x, y) ==
    LET a == ToNumber(x)
        b == ToNumber(y)
    IN  IF a.k = "nan" \/ b.k = "nan" THEN NaN
        ELSE IF a.k = "inf"
             THEN IF b.k = "inf" THEN NaN
                  ELSE Infinity(IF b.n < 0 THEN -a.n ELSE a.n)
        ELSE IF b.k = "inf" THEN Zero
        ELSE IF b.n = 0
             THEN IF a.n = 0 THEN NaN ELSE Infinity(Sign(a.n))
        ELSE Num(a.n * b.d, a.d * b.n)

\* x + y
Add(x, y) ==
    LET a == ToNumber(x)
        b == ToNumber(y)
    IN  IF a.k = "nan" \/ b.k = "nan" THEN NaN
        ELSE IF a.k = "inf"
             THEN IF b.k = "inf" /\ b.n # a.n THEN NaN ELSE a
        ELSE IF b.k = "inf" THEN b
        ELSE Num(a.n * b.d + b.n * a.d, a.d * b.d)

\* x < y (false when either side is NaN)
Lt(x, y) ==
    LET a == ToNumber(x)
        b == ToNumber(y)
    IN  IF a.k = "nan" \/ b.k = "nan" THEN FALSE
        ELSE IF a.k = "inf" THEN a.n = -1 /\ ~(b.k = "inf" /\ b.n = -1)
        ELSE IF b.k = "inf" THEN b.n = 1
        ELSE a.n * b.d < b.n * a.d

\* x > y
Gt(x, y) == Lt(y, x)

\* x <= y (false when either side is NaN)
Le(x, y) == ~IsNaN(x) /\ ~IsNaN(y) /\ ~Lt(y, x)

\* Math.min(x, y)
MathMin(x, y) ==
    LET a == ToNumber(x)
        b == ToNumber(y)
    IN  IF a.k = "nan" \/ b.k = "nan" THEN NaN
        ELSE IF Lt(b, a) THEN b ELSE a

\* lodash _.min: null, undefined and NaN elements are passed over; the
\* first smallest of the others, undefined when there is none.
RECURSIVE LodashMinFrom(_, _, _)
LodashMinFrom(xs, i, computed) ==
    IF i > Len(xs) THEN computed
    ELSE LET current == xs[i]
             take == /\ current.k \notin {"null", "undef"}
                     /\ IF computed.k = "undef"
                        THEN current.k # "nan"
                        ELSE Lt(current, computed)
         IN  LodashMinFrom(xs, i + 1, IF take THEN current ELSE computed)

LodashMin(xs) == LodashMinFrom(xs, 1, Undefined)

\* lodash _.sum: undefined elements are passed over, 0 for the empty array.
RECURSIVE LodashSumFrom(_, _, _)
LodashSumFrom(xs, i, result) ==
    IF i > Len(xs) THEN result
    ELSE LET current == xs[i]
         IN  LodashSumFrom(xs, i + 1,
                 IF current.k = "undef" THEN result
                 ELSE IF result.k = "undef" THEN current
                 ELSE Add(result, current))

LodashSum(xs) == IF Len(xs) = 0 THEN Zero ELSE LodashSumFrom(xs, 1, Undefined)

\* _.reduce(scores, (res, cur) => res * cur, 1)
RECURSIVE ProductFrom(_, _, _)
ProductFrom(xs, i, res) ==
    IF i > Len(xs) THEN res ELSE ProductFrom(xs, i + 1, Mul(res, xs[i]))

\* calculateSubtaskScore with a Summation that forgets the division.
calculateSubtaskScore_NoMean(scoring, scores) ==
    IF scoring = "Minimum" THEN LodashMin(scores)
    ELSE IF scoring = "Multiple" THEN ProductFrom(scores, 1, One)
    ELSE IF scoring = "Summation" THEN LodashSum(scores)
    ELSE Undefined

calculateSubtaskScore(scoring, scores) ==
    IF scoring = "Minimum" THEN LodashMin(scores)
    ELSE IF scoring = "Multiple" THEN ProductFrom(scores, 1, One)
    ELSE IF scoring = "Summation" THEN Div(LodashSum(scores), Num(Len(scores), 1))
    ELSE Undefined

(***************************************************************************)
(* The test data.  subtasks is a function on 0..N-1 of records             *)
(* [type, score, cases, dependencies]: cases is the sequence of the case   *)
(* names, dependencies the sequence of the (0-based) subtask indices.      *)
(***************************************************************************)
NumSubtasks(subtasks) == Cardinality(DOMAIN subtasks)

fatal(message) == "Misconfigured subtask dependencies: " \o message

MsgType == fatal("subtask with dependencies must have scoring type 'min'")

MsgRange == fatal("subtask index out of range")

MsgLoop == fatal("loop detected")

\* The checks of one dependency list, in the order of the for-of loop:
\* the message of the first check that fails, "" when none does.
RECURSIVE CheckDependencies(_, _, _)
CheckDependencies(subtasks, dependencies, j) ==
    IF j > Len(dependencies) THEN ""
    ELSE LET from == dependencies[j]
         IN  IF from < 0 \/ from >= NumSubtasks(subtasks) THEN MsgRange
             ELSE IF subtasks[from].type # "Minimum" THEN MsgType
             ELSE CheckDependencies(subtasks, dependencies, j + 1)

\* CheckSubtasks without the test of the type of the dependent subtask.
RECURSIVE CheckSubtasks_NoOwnType(_, _)
CheckSubtasks_NoOwnType(subtasks, index) ==
    IF index >= NumSubtasks(subtasks) THEN ""
    ELSE LET own == CheckDependencies(subtasks, subtasks[index].dependencies, 1)
         IN  IF own # "" THEN own ELSE CheckSubtasks_NoOwnType(subtasks, index + 1)

\* The callback of subtasks.map, from subtask index on: the first fatal.
RECURSIVE CheckSubtasks(_, _)
CheckSubtasks(subtasks, index) ==
    IF index >= NumSubtasks(subtasks) THEN ""
    ELSE LET t == subtasks[index]
             own == IF Len(t.dependencies) > 0 /\ t.type # "Minimum"
                    THEN MsgType
                    ELSE CheckDependencies(subtasks, t.dependencies, 1)
         IN  IF own # "" THEN own ELSE CheckSubtasks(subtasks, index + 1)

\* queue after the map: the subtasks without dependencies, ascending.
RECURSIVE InitialQueue(_, _)
InitialQueue(subtasks, index) ==
    IF index >= NumSubtasks(subtasks) THEN << >>
    ELSE (IF Len(subtasks[index].dependencies) = 0 THEN <<index>> ELSE << >>)
         \o InitialQueue(subtasks, index + 1)

\* edgesOut[from]: one entry per occurrence of from in a dependency list,
\* in the order the map pushes them.
RECURSIVE EdgesOutFrom(_, _, _)
EdgesOutFrom(subtasks, from, index) ==
    IF index >= NumSubtasks(subtasks) THEN << >>
    ELSE LET deps == subtasks[index].dependencies
             hits == SelectSeq(deps, LAMBDA x : x = from)
         IN  [j \in 1..Len(hits) |-> index] \o EdgesOutFrom(subtasks, from, index + 1)

EdgesOut(subtasks) == [from \in DOMAIN subtasks |-> EdgesOutFrom(subtasks, from, 0)]

DegreeIn(subtasks) == [index \in DOMAIN subtasks |-> Len(subtasks[index].dependencies)]

\* Relax pushing a subtask as soon as one of its dependencies is popped.
RECURSIVE Relax_Eager(_, _, _, _)
Relax_Eager(tos, j, queue, degreeIn) ==
    IF j > Len(tos) THEN [queue |-> queue, degreeIn |-> degreeIn]
    ELSE LET to == tos[j]
             deg == [degreeIn EXCEPT ![to] = @ - 1]
         IN  Relax_Eager(tos, j + 1, Append(queue, to), deg)

\* The inner loop over edgesOut[index].
RECURSIVE Relax(_, _, _, _)
Relax(tos, j, queue, degreeIn) ==
    IF j > Len(tos) THEN [queue |-> queue, degreeIn |-> degreeIn]
    ELSE LET to == tos[j]
             deg == [degreeIn EXCEPT ![to] = @ - 1]
         IN  Relax(tos, j + 1, IF deg[to] = 0 THEN Append(queue, to) ELSE queue, deg)

\* The loop over head (1-based here).
RECURSIVE Kahn(_, _, _, _)
Kahn(edgesOut, queue, head, degreeIn) ==
    IF head > Len(queue) THEN queue
    ELSE LET r == Relax(edgesOut[queue[head]], 1, queue, degreeIn)
         IN  Kahn(edgesOut, r.queue, head + 1, r.degreeIn)

\* getSubtaskOrder without the test of the queue length.
getSubtaskOrder_NoLoopCheck(subtasks) ==
    LET invalid == CheckSubtasks(subtasks, 0)
        queue == Kahn(EdgesOut(subtasks), InitialQueue(subtasks, 0), 1, DegreeIn(subtasks))
    IN  IF invalid # "" THEN [error |-> invalid, order |-> << >>]
        ELSE [error |-> "", order |-> queue]

\* getSubtaskOrder: [error, order]; error is "" when the order is returned.
getSubtaskOrder(subtasks) ==
    LET invalid == CheckSubtasks(subtasks, 0)
        queue == Kahn(EdgesOut(subtasks), InitialQueue(subtasks, 0), 1, DegreeIn(subtasks))
    IN  IF invalid # "" THEN [error |-> invalid, order |-> << >>]
        ELSE IF Len(queue) < NumSubtasks(subtasks) THEN [error |-> MsgLoop, order |-> << >>]
        ELSE [error |-> "", order |-> queue]

(***************************************************************************)
(* The state of one judge run.                                             *)
(*   subtasks      testData.subtasks                                       *)
(*   outcomes      what a judgeTestcase call may produce: the              *)
(*                 TestcaseDetails it may return, and Throw for a          *)
(*                 rejection                                               *)
(*   environments  what the gate of the diagnostics may read: the values   *)
(*                 of globalConfig.diagnostics, of the judge parameters    *)
(*                 and of supportDiagnostics()                             *)
(*   phase         "init" before judge(), "running" while the subtask      *)
(*                 runners run, "diagnostics" while judge() awaits         *)
(*                 runDiagnostics, "fatal" when judge() has thrown,        *)
(*                 "returned"                                              *)
(*   error         the message judge() has thrown, "" when none            *)
(*   subtaskOrder  the order getSubtaskOrder returned                      *)
(*   results       results[s] = [cases, score]; cases[i] = [status,        *)
(*                 result], result a TestcaseDetails                       *)
(*   testcaseDetailsCache   case name -> cached TestcaseDetails            *)
(*   judgeTasks    judgeTasks[s] = the position of subtask runner s:       *)
(*                 [pc, index, skipped, minScore, cases]; cases[i] = the   *)
(*                 position of the evaluation of case i: [pc, value,       *)
(*                 called]                                                 *)
(*   diagnostics   the position of the diagnostics driver: [pc, runs,      *)
(*                 environment, maxTimeUsage, maxMemoryUsage,              *)
(*                 diagnosticCase, compilation, judged]                    *)
(*                                                                         *)
(* A TestcaseDetails is a record [scoringRate, type, time, memory,         *)
(* userError, diagnostics, object].  A field the object does not have      *)
(* (undefined) is Undefined for a number and "" for a string.  object is   *)
(* the identity of the JavaScript object: <<s, i>> for the object the      *)
(* judgeTestcase call of case i of subtask s returned, << >> for an object *)
(* literal of line 89 and for a result not yet returned.  The cache hands  *)
(* the object itself to every later referent of the name.                  *)
(***************************************************************************)
VARIABLES subtasks, outcomes, environments, phase, error, subtaskOrder, results,
          testcaseDetailsCache, judgeTasks, diagnostics

vars == <<subtasks, outcomes, environments, phase, error, subtaskOrder, results,
          testcaseDetailsCache, judgeTasks, diagnostics>>

Throw == [k |-> "throw", n |-> 0, d |-> 1]

\* The object literal { scoringRate: rate } of line 89.
Baseline(rate) ==
    [scoringRate |-> rate, type |-> "", time |-> Undefined, memory |-> Undefined,
     userError |-> "", diagnostics |-> "", object |-> << >>]

\* InitialResult with the scoringRate 1 whatever the type.
InitialResult_AllOne(t) ==
    [cases |-> [j \in 1..Len(t.cases) |->
                   [status |-> "Waiting", result |-> Baseline(One)]],
     score |-> Undefined]

\* results[s] as judge() builds it (lines 86-92), score not yet set.
InitialResult(t) ==
    [cases |-> [j \in 1..Len(t.cases) |->
                   [status |-> "Waiting",
                    result |-> Baseline(IF t.type # "Summation" THEN One ELSE Zero)]],
     score |-> Undefined]

InitialTask(t) ==
    [pc |-> "idle", index |-> 0, skipped |-> FALSE, minScore |-> Undefined,
     cases |-> [j \in 1..Len(t.cases) |->
                   [pc |-> "idle", value |-> Undefined, called |-> FALSE]]]

\* updateSubtaskScore without the weight of the subtask.
updateSubtaskScore_Unweighted(currentTask, currentResult) ==
    IF \E j \in DOMAIN currentResult.cases : currentResult.cases[j].status = "Failed"
    THEN NaN
    ELSE calculateSubtaskScore(currentTask.type,
             [j \in DOMAIN currentResult.cases |->
                 currentResult.cases[j].result.scoringRate])

updateSubtaskScore(currentTask, currentResult) ==
    IF \E j \in DOMAIN currentResult.cases : currentResult.cases[j].status = "Failed"
    THEN NaN
    ELSE Mul(calculateSubtaskScore(currentTask.type,
                 [j \in DOMAIN currentResult.cases |->
                     currentResult.cases[j].result.scoringRate]),
             currentTask.score)

\* updateCurrentSubtaskScore with the handler left unwrapped.
updateCurrentSubtaskScore_NoClamp(currentTask, currentResult, minScore) ==
    updateSubtaskScore(currentTask, currentResult)

\* updateCurrentSubtaskScore as the runner of currentTask calls it: the
\* handler of a Minimum subtask is wrapped with the clamp to minScore.
updateCurrentSubtaskScore(currentTask, currentResult, minScore) ==
    IF currentTask.type = "Minimum"
    THEN MathMin(updateSubtaskScore(currentTask, currentResult), minScore)
    ELSE updateSubtaskScore(currentTask, currentResult)

\* judgeTestcaseWrapper up to its first await: the cached value, or a call
\* of judgeTestcase.
judgeTestcaseWrapper(name, cache) ==
    IF name \in DOMAIN cache
    THEN [pc |-> "ret", value |-> cache[name], called |-> FALSE]
    ELSE [pc |-> "call", value |-> Undefined, called |-> TRUE]

\* Math.min over xs from index i on.
RECURSIVE MathMinFrom(_, _, _)
MathMinFrom(xs, i, least) ==
    IF i > Len(xs) THEN least ELSE MathMinFrom(xs, i + 1, MathMin(least, xs[i]))

\* MinRatio taken with Math.min, which returns NaN for a NaN ratio.
MinRatio_MathMin(allSubtasks, allResults, dependencies) ==
    MathMinFrom([j \in 1..Len(dependencies) |->
                    Div(allResults[dependencies[j]].score,
                        allSubtasks[dependencies[j]].score)], 1, One)

\* minRatio of lines 151-155.
MinRatio(allSubtasks, allResults, dependencies) ==
    LodashMin([j \in 1..Len(dependencies) |->
                  Div(allResults[dependencies[j]].score,
                      allSubtasks[dependencies[j]].score)] \o <<One>>)

\* FinishSubtask calling the handler of line 136, before it was wrapped.
FinishSubtask_Unwrapped(currentTask, sl) ==
    [sl EXCEPT !.res.score = updateSubtaskScore(currentTask, sl.res),
               !.task.pc = "final"]

\* The end of a runner: lines 221-222, up to the await.
FinishSubtask(currentTask, sl) ==
    [sl EXCEPT !.res.score = updateCurrentSubtaskScore(currentTask, sl.res, sl.task.minScore),
               !.task.pc = "final"]

\* The loop of lines 169-196 from case index on, up to its next await.
RECURSIVE SkippableLoop(_, _, _, _)
SkippableLoop(currentTask, cache, sl, index) ==
    IF index > Len(currentTask.cases) THEN FinishSubtask(currentTask, sl)
    ELSE IF sl.task.skipped
    THEN SkippableLoop(currentTask, cache,
             [sl EXCEPT !.res.cases[index].status = "Skipped"], index + 1)
    ELSE [sl EXCEPT !.task.pc = "case",
                    !.task.index = index,
                    !.task.cases[index] = judgeTestcaseWrapper(currentTask.cases[index], cache)]

\* RunSubtask without the test of minScore.
RunSubtask_NoUpfrontSkip(allSubtasks, allResults, cache, s) ==
    LET currentTask == allSubtasks[s]
        sl == [res |-> allResults[s], task |-> InitialTask(currentTask)]
    IN  IF currentTask.type # "Summation"
        THEN LET minScore == IF currentTask.type = "Minimum"
                             THEN Mul(MinRatio(allSubtasks, allResults, currentTask.dependencies),
                                      currentTask.score)
                             ELSE Undefined
             IN  SkippableLoop(currentTask, cache, [sl EXCEPT !.task.minScore = minScore], 1)
        ELSE [sl EXCEPT !.task.pc = "join",
                        !.task.cases = [j \in 1..Len(currentTask.cases) |->
                                           judgeTestcaseWrapper(currentTask.cases[j], cache)]]

\* RunSubtask skipping only when minScore is below 0.
RunSubtask_SkipBelowZero(allSubtasks, allResults, cache, s) ==
    LET currentTask == allSubtasks[s]
        sl == [res |-> allResults[s], task |-> InitialTask(currentTask)]
    IN  IF currentTask.type # "Summation"
        THEN LET minScore == IF currentTask.type = "Minimum"
                             THEN Mul(MinRatio(allSubtasks, allResults, currentTask.dependencies),
                                      currentTask.score)
                             ELSE Undefined
                 skipped == currentTask.type = "Minimum" /\ Lt(minScore, Zero)
             IN  SkippableLoop(currentTask, cache,
                     [sl EXCEPT !.task.skipped = skipped, !.task.minScore = minScore], 1)
        ELSE [sl EXCEPT !.task.pc = "join",
                        !.task.cases = [j \in 1..Len(currentTask.cases) |->
                                           judgeTestcaseWrapper(currentTask.cases[j], cache)]]

\* RunSubtask running the cases of every subtask one by one.
RunSubtask_OneByOne(allSubtasks, allResults, cache, s) ==
    LET currentTask == allSubtasks[s]
        sl == [res |-> allResults[s], task |-> InitialTask(currentTask)]
        minScore == IF currentTask.type = "Minimum"
                    THEN Mul(MinRatio(allSubtasks, allResults, currentTask.dependencies),
                             currentTask.score)
                    ELSE Undefined
        skipped == currentTask.type = "Minimum" /\ ~Gt(minScore, Zero)
    IN  SkippableLoop(currentTask, cache,
            [sl EXCEPT !.task.skipped = skipped, !.task.minScore = minScore], 1)

\* RunSubtask starting the cases of every subtask at once.
RunSubtask_AllAtOnce(allSubtasks, allResults, cache, s) ==
    LET currentTask == allSubtasks[s]
        sl == [res |-> allResults[s], task |-> InitialTask(currentTask)]
    IN  [sl EXCEPT !.task.pc = "join",
                   !.task.cases = [j \in 1..Len(currentTask.cases) |->
                                      judgeTestcaseWrapper(currentTask.cases[j], cache)]]

\* The body of a runner after the wait for its dependencies (lines
\* 146-220), up to its first await.
RunSubtask(allSubtasks, allResults, cache, s) ==
    LET currentTask == allSubtasks[s]
        sl == [res |-> allResults[s], task |-> InitialTask(currentTask)]
    IN  IF currentTask.type # "Summation"
        THEN LET minScore == IF currentTask.type = "Minimum"
                             THEN Mul(MinRatio(allSubtasks, allResults, currentTask.dependencies),
                                      currentTask.score)
                             ELSE Undefined
                 skipped == currentTask.type = "Minimum" /\ ~Gt(minScore, Zero)
             IN  SkippableLoop(currentTask, cache,
                     [sl EXCEPT !.task.skipped = skipped, !.task.minScore = minScore], 1)
        ELSE [sl EXCEPT !.task.pc = "join",
                        !.task.cases = [j \in 1..Len(currentTask.cases) |->
                                           judgeTestcaseWrapper(currentTask.cases[j], cache)]]

\* A runner from its creation to its first await (lines 138-145).
LaunchSubtask(allSubtasks, allResults, cache, s) ==
    IF Len(allSubtasks[s].dependencies) > 0
    THEN [res |-> allResults[s],
          task |-> [InitialTask(allSubtasks[s]) EXCEPT !.pc = "deps"]]
    ELSE RunSubtask(allSubtasks, allResults, cache, s)

S == DOMAIN subtasks

Cases(s) == 1..Len(subtasks[s].cases)

Slot(s) == [res |-> results[s], task |-> judgeTasks[s]]

\* judge() from its call to its first await (lines 86-226): the results
\* with the baseline scores, the order, and every runner of the order
\* launched.  A runner reads, up to its first await, the test data, the
\* cache (empty: it is written after an await only) and its own slot of
\* results, so the launches do not depend on their order.
JudgeStart ==
    /\ phase = "init"
    /\ LET baseline == [s \in S |->
                           [InitialResult(subtasks[s]) EXCEPT
                               !.score = updateSubtaskScore(subtasks[s], InitialResult(subtasks[s]))]]
           sorted == getSubtaskOrder(subtasks)
           inOrder == {sorted.order[k] : k \in 1..Len(sorted.order)}
           launched == [s \in S |->
                           IF s \in inOrder
                           THEN LaunchSubtask(subtasks, baseline, << >>, s)
                           ELSE [res |-> baseline[s], task |-> InitialTask(subtasks[s])]]
       IN  IF sorted.error # ""
           THEN /\ phase' = "fatal"
                /\ error' = sorted.error
                /\ results' = baseline
                /\ judgeTasks' = [s \in S |-> InitialTask(subtasks[s])]
                /\ UNCHANGED subtaskOrder
           ELSE /\ phase' = "running"
                /\ subtaskOrder' = sorted.order
                /\ results' = [s \in S |-> launched[s].res]
                /\ judgeTasks' = [s \in S |-> launched[s].task]
                /\ UNCHANGED error
    /\ testcaseDetailsCache' = << >>
    /\ UNCHANGED <<subtasks, outcomes, environments, diagnostics>>

\* The promises dependencies.map(index => judgeTasks[index]) of line 143
\* holds: judgeTasks[index] is set once the loop of line 132 has reached
\* index, that is for the subtasks before s in subtaskOrder.
Position(order, s) == CHOOSE k \in 1..Len(order) : order[k] = s

Awaited(order, dependencies, s) ==
    {dependencies[j] : j \in {k \in 1..Len(dependencies) :
        \E a, b \in 1..Len(order) :
            a < b /\ order[a] = dependencies[k] /\ order[b] = s}}

\* DependenciesDone without the wait.
DependenciesDone_NoWait(s) ==
    /\ phase = "running"
    /\ judgeTasks[s].pc = "deps"
    /\ LET sl == RunSubtask(subtasks, results, testcaseDetailsCache, s)
       IN  /\ results' = [results EXCEPT ![s] = sl.res]
           /\ judgeTasks' = [judgeTasks EXCEPT ![s] = sl.task]
    /\ UNCHANGED <<subtasks, outcomes, environments, diagnostics, phase, error, subtaskOrder, testcaseDetailsCache>>

\* The runner of s resumes after await Promise.all(dependencies' tasks).
DependenciesDone(s) ==
    /\ phase = "running"
    /\ judgeTasks[s].pc = "deps"
    /\ \A d \in Awaited(subtaskOrder, subtasks[s].dependencies, s) :
           judgeTasks[d].pc = "done"
    /\ LET sl == RunSubtask(subtasks, results, testcaseDetailsCache, s)
       IN  /\ results' = [results EXCEPT ![s] = sl.res]
           /\ judgeTasks' = [judgeTasks EXCEPT ![s] = sl.task]
    /\ UNCHANGED <<subtasks, outcomes, environments, diagnostics, phase, error, subtaskOrder, testcaseDetailsCache>>

\* The runner transport calls the started callback of the call made for
\* case i of subtask s (lines 177-180, 205-208).
Started(s, i) ==
    /\ phase = "running"
    /\ judgeTasks[s].cases[i].pc = "call"
    /\ results[s].cases[i].status = "Waiting"
    /\ results' = [results EXCEPT ![s].cases[i].status = "Running"]
    /\ UNCHANGED <<subtasks, outcomes, environments, diagnostics, phase, error, subtaskOrder,
                   testcaseDetailsCache, judgeTasks>>

\* judgeTestcase returns for case i of subtask s: the wrapper caches the
\* result and returns it (lines 110-113).
JudgeTestcaseReturns(s, i, r) ==
    /\ phase = "running"
    /\ judgeTasks[s].cases[i].pc = "call"
    /\ r \in outcomes \ {Throw}
    /\ LET result == [r EXCEPT !.object = <<s, i>>]
       IN  /\ testcaseDetailsCache' = (subtasks[s].cases[i] :> result) @@ testcaseDetailsCache
           /\ judgeTasks' = [judgeTasks EXCEPT ![s].cases[i].pc = "ret",
                                               ![s].cases[i].value = result]
    /\ UNCHANGED <<subtasks, outcomes, environments, diagnostics, phase, error, subtaskOrder, results>>

\* AfterResult with a zero that leaves the skip flag alone.
AfterResult_NoSkip(currentTask, sl, i) ==
    LET taskJudge == sl.task.cases[i].value
        done == [sl EXCEPT !.res.cases[i].status = "Done",
                           !.res.cases[i].result = taskJudge,
                           !.task.cases[i].pc = "report",
                           !.task.cases[i].value = Undefined]
    IN  [done EXCEPT !.res.score =
             updateCurrentSubtaskScore(currentTask, done.res, done.task.minScore)]

\* The caller of the wrapper once the result is there, up to the await of
\* reportProgress (lines 181-183 and 189-194, or 205, 209 and 215-216).
AfterResult(currentTask, sl, i) ==
    LET taskJudge == sl.task.cases[i].value
        done == [sl EXCEPT !.res.cases[i].status = "Done",
                           !.res.cases[i].result = taskJudge,
                           !.task.cases[i].pc = "report",
                           !.task.cases[i].value = Undefined]
        score == taskJudge.scoringRate
        flagged == IF currentTask.type # "Summation"
                      /\ (score.k \in {"null", "undef"} \/ IsNaN(score) \/ score = Zero)
                   THEN [done EXCEPT !.task.skipped = TRUE]
                   ELSE done
    IN  [flagged EXCEPT !.res.score =
             updateCurrentSubtaskScore(currentTask, flagged.res, flagged.task.minScore)]

CaseResumes(s, i) ==
    /\ phase = "running"
    /\ judgeTasks[s].cases[i].pc = "ret"
    /\ LET sl == AfterResult(subtasks[s], Slot(s), i)
       IN  /\ results' = [results EXCEPT ![s] = sl.res]
           /\ judgeTasks' = [judgeTasks EXCEPT ![s] = sl.task]
    /\ UNCHANGED <<subtasks, outcomes, environments, diagnostics, phase, error, subtaskOrder, testcaseDetailsCache>>

\* AfterError with a failure that leaves the skip flag alone.
AfterError_NoSkip(currentTask, sl, i) ==
    LET failed == [sl EXCEPT !.res.cases[i].status = "Failed",
                             !.task.cases[i].pc = "report"]
    IN  [failed EXCEPT !.res.score =
             updateCurrentSubtaskScore(currentTask, failed.res, failed.task.minScore)]

\* The catch block and what follows it, up to the await of reportProgress
\* (lines 184-194, or 210-216): score is still 0 in a skippable subtask.
AfterError(currentTask, sl, i) ==
    LET failed == [sl EXCEPT !.res.cases[i].status = "Failed",
                             !.task.cases[i].pc = "report"]
        score == Zero
        flagged == IF currentTask.type # "Summation"
                      /\ (score.k \in {"null", "undef"} \/ IsNaN(score) \/ score = Zero)
                   THEN [failed EXCEPT !.task.skipped = TRUE]
                   ELSE failed
    IN  [flagged EXCEPT !.res.score =
             updateCurrentSubtaskScore(currentTask, flagged.res, flagged.task.minScore)]

\* JudgeTestcaseThrows without the catch: the rejection leaves judge().
JudgeTestcaseThrows_NoCatch(s, i) ==
    /\ phase = "running"
    /\ judgeTasks[s].cases[i].pc = "call"
    /\ Throw \in outcomes
    /\ phase' = "fatal"
    /\ error' = "Task runner error"
    /\ UNCHANGED <<subtasks, outcomes, environments, diagnostics, subtaskOrder, results,
                   testcaseDetailsCache, judgeTasks>>

\* judgeTestcase rejects for case i of subtask s.
JudgeTestcaseThrows(s, i) ==
    /\ phase = "running"
    /\ judgeTasks[s].cases[i].pc = "call"
    /\ Throw \in outcomes
    /\ LET sl == AfterError(subtasks[s], Slot(s), i)
       IN  /\ results' = [results EXCEPT ![s] = sl.res]
           /\ judgeTasks' = [judgeTasks EXCEPT ![s] = sl.task]
    /\ UNCHANGED <<subtasks, outcomes, environments, diagnostics, phase, error, subtaskOrder, testcaseDetailsCache>>

\* AfterReport with a skip that goes through the cases from the first one.
AfterReport_Restart(currentTask, cache, sl, i) ==
    LET ended == [sl EXCEPT !.task.cases[i].pc = "done"]
    IN  IF currentTask.type # "Summation"
        THEN SkippableLoop(currentTask, cache, ended, IF ended.task.skipped THEN 1 ELSE i + 1)
        ELSE ended

\* After await reportProgress() of case i: a skippable runner goes on with
\* the next case (line 169), a Summation case task ends (line 217).
AfterReport(currentTask, cache, sl, i) ==
    LET ended == [sl EXCEPT !.task.cases[i].pc = "done"]
    IN  IF currentTask.type # "Summation"
        THEN SkippableLoop(currentTask, cache, ended, i + 1)
        ELSE ended

CaseReported(s, i) ==
    /\ phase = "running"
    /\ judgeTasks[s].cases[i].pc = "report"
    /\ LET sl == AfterReport(subtasks[s], testcaseDetailsCache, Slot(s), i)
       IN  /\ results' = [results EXCEPT ![s] = sl.res]
           /\ judgeTasks' = [judgeTasks EXCEPT ![s] = sl.task]
    /\ UNCHANGED <<subtasks, outcomes, environments, diagnostics, phase, error, subtaskOrder, testcaseDetailsCache>>

\* A Summation runner resumes after await Promise.all(caseTasks), line 219.
CaseTasksDone(s) ==
    /\ phase = "running"
    /\ judgeTasks[s].pc = "join"
    /\ \A i \in Cases(s) : judgeTasks[s].cases[i].pc = "done"
    /\ LET sl == FinishSubtask(subtasks[s], Slot(s))
       IN  /\ results' = [results EXCEPT ![s] = sl.res]
           /\ judgeTasks' = [judgeTasks EXCEPT ![s] = sl.task]
    /\ UNCHANGED <<subtasks, outcomes, environments, diagnostics, phase, error, subtaskOrder, testcaseDetailsCache>>

\* The runner of s ends after its last await reportProgress() (line 222).
SubtaskFinished(s) ==
    /\ phase = "running"
    /\ judgeTasks[s].pc = "final"
    /\ judgeTasks' = [judgeTasks EXCEPT ![s].pc = "done"]
    /\ UNCHANGED <<subtasks, outcomes, environments, diagnostics, phase, error, subtaskOrder, results,
                   testcaseDetailsCache>>

(***************************************************************************)
(* The diagnostics driver (StandardJudger.runDiagnostics).  An environment *)
(* is what lines 229 and 139-146 read: [enabled, supportDiagnostics,       *)
(* maxTimeRatio, maxTime, maxMemoryRatio, maxMemory, timeLimit,            *)
(* memoryLimit]; nothing reads these values before the subtask runners     *)
(* have ended, and the model draws them there.                             *)
(***************************************************************************)
Kibi == 1024

NoEnvironment ==
    [enabled |-> FALSE, supportDiagnostics |-> FALSE,
     maxTimeRatio |-> Undefined, maxTime |-> Undefined,
     maxMemoryRatio |-> Undefined, maxMemory |-> Undefined,
     timeLimit |-> Undefined, memoryLimit |-> Undefined]

\* The driver before judge() reaches line 229.
NoDiagnostics ==
    [pc |-> "off", runs |-> 0, environment |-> NoEnvironment,
     maxTimeUsage |-> Undefined, maxMemoryUsage |-> Undefined,
     diagnosticCase |-> << >>, compilation |-> "", judged |-> 0]

maxTimeUsage(env) ==
    MathMin(Mul(env.maxTimeRatio, env.timeLimit), env.maxTime)

\* maxMemoryUsage comparing the limit in MiB with the usage in KiB.
maxMemoryUsage_NoKibi(env) ==
    MathMin(Mul(env.maxMemoryRatio, env.memoryLimit), env.maxMemory)

maxMemoryUsage(env) ==
    MathMin(Mul(Mul(env.maxMemoryRatio, env.memoryLimit), Num(Kibi, 1)), env.maxMemory)

\* The condition of lines 163-166 (a result is always an object here).
Triggers(currentTaskDetails, maxTime, maxMemory) ==
    /\ currentTaskDetails.type \in {"WrongAnswer", "RuntimeError"}
    /\ Le(currentTaskDetails.time, maxTime)
    /\ Le(currentTaskDetails.memory, maxMemory)

\* The loops of lines 152-173 from case index of subtask subtaskIndex on:
\* <<subtaskIndex, index>> of the case found, << >> when there is none.
RECURSIVE FindDiagnosticCase(_, _, _, _, _, _)
FindDiagnosticCase(allSubtasks, allResults, maxTime, maxMemory, subtaskIndex, index) ==
    IF subtaskIndex >= NumSubtasks(allSubtasks) THEN << >>
    ELSE IF index > Len(allSubtasks[subtaskIndex].cases)
    THEN FindDiagnosticCase(allSubtasks, allResults, maxTime, maxMemory, subtaskIndex + 1, 1)
    ELSE IF Triggers(allResults[subtaskIndex].cases[index].result, maxTime, maxMemory)
    THEN <<subtaskIndex, index>>
    ELSE FindDiagnosticCase(allSubtasks, allResults, maxTime, maxMemory, subtaskIndex, index + 1)

\* runDiagnostics from its call to its first await (lines 131-179), or to
\* its end when no case is found.
runDiagnostics(driver, env, allSubtasks, allResults) ==
    LET maxTime == maxTimeUsage(env)
        maxMemory == maxMemoryUsage(env)
        found == FindDiagnosticCase(allSubtasks, allResults, maxTime, maxMemory, 0, 1)
    IN  [driver EXCEPT !.pc = IF found # << >> THEN "compile" ELSE "done",
                       !.runs = @ + 1,
                       !.environment = env,
                       !.maxTimeUsage = maxTime,
                       !.maxMemoryUsage = maxMemory,
                       !.diagnosticCase = found]

\* JudgeJoined with a gate that does not ask supportDiagnostics().
JudgeJoined_NoSupportTest(env) ==
    /\ phase = "running"
    /\ \A s \in S : judgeTasks[s].pc = "done"
    /\ env \in environments
    /\ IF env.enabled
       THEN LET driver == runDiagnostics(diagnostics, env, subtasks, results)
            IN  /\ diagnostics' = driver
                /\ phase' = IF driver.pc = "compile" THEN "diagnostics" ELSE "returned"
       ELSE /\ diagnostics' = [diagnostics EXCEPT !.pc = "done", !.environment = env]
            /\ phase' = "returned"
    /\ UNCHANGED <<subtasks, outcomes, environments, error, subtaskOrder, results,
                   testcaseDetailsCache, judgeTasks>>

\* judge() resumes after await Promise.all(judgeTasks) (line 226): the gate
\* of line 229, then either the return of line 234 or runDiagnostics up to
\* its first await.  When runDiagnostics finds no case it ends at once, and
\* judge() returns.
JudgeJoined(env) ==
    /\ phase = "running"
    /\ \A s \in S : judgeTasks[s].pc = "done"
    /\ env \in environments
    /\ IF env.enabled /\ env.supportDiagnostics
       THEN LET driver == runDiagnostics(diagnostics, env, subtasks, results)
            IN  /\ diagnostics' = driver
                /\ phase' = IF driver.pc = "compile" THEN "diagnostics" ELSE "returned"
       ELSE /\ diagnostics' = [diagnostics EXCEPT !.pc = "done", !.environment = env]
            /\ phase' = "returned"
    /\ UNCHANGED <<subtasks, outcomes, environments, error, subtaskOrder, results,
                   testcaseDetailsCache, judgeTasks>>

\* The status of the CompilationResult compileWithDiagnostics may resolve
\* with: Done, or Failed for a source that does not compile.
CompilationStatuses == {"Done", "Failed"}

\* compileWithDiagnostics resolves (line 179): its result is dropped and
\* judgeTestcase is called for the case found (line 180).
CompileWithDiagnosticsReturns(status) ==
    /\ phase = "diagnostics"
    /\ diagnostics.pc = "compile"
    /\ status \in CompilationStatuses
    /\ diagnostics' = [diagnostics EXCEPT !.pc = "judge",
                                          !.compilation = status,
                                          !.judged = @ + 1]
    /\ UNCHANGED <<subtasks, outcomes, environments, phase, error, subtaskOrder,
                   results, testcaseDetailsCache, judgeTasks>>

\* compileWithDiagnostics rejects: the catch of line 192, runDiagnostics
\* ends and judge() returns.
CompileWithDiagnosticsThrows ==
    /\ phase = "diagnostics"
    /\ diagnostics.pc = "compile"
    /\ diagnostics' = [diagnostics EXCEPT !.pc = "done", !.compilation = "throw"]
    /\ phase' = "returned"
    /\ UNCHANGED <<subtasks, outcomes, environments, error, subtaskOrder,
                   results, testcaseDetailsCache, judgeTasks>>

\* diagnosticDetails.diagnostics = text (line 187): diagnosticDetails is the
\* object the results hold, and with them whoever holds the same object.
SetDiagnostics(details, object, text) ==
    IF details.object = object THEN [details EXCEPT !.diagnostics = text] ELSE details

\* DiagnosticsJudged recording the result of the second run as the result
\* of the case.
DiagnosticsJudged_Overwrite(r) ==
    /\ phase = "diagnostics"
    /\ diagnostics.pc = "judge"
    /\ r \in outcomes \ {Throw}
    /\ LET found == diagnostics.diagnosticCase
       IN  results' = [results EXCEPT ![found[1]].cases[found[2]].result = r]
    /\ diagnostics' = [diagnostics EXCEPT !.pc = "done"]
    /\ phase' = "returned"
    /\ UNCHANGED <<subtasks, outcomes, environments, error, subtaskOrder,
                   testcaseDetailsCache, judgeTasks>>

\* The judgeTestcase call of line 180 returns r: a userError that is not
\* empty is attached and reported (lines 185-188), otherwise runDiagnostics
\* ends and judge() returns.
DiagnosticsJudged(r) ==
    /\ phase = "diagnostics"
    /\ diagnostics.pc = "judge"
    /\ r \in outcomes \ {Throw}
    /\ IF r.userError # ""
       THEN LET found == diagnostics.diagnosticCase
                object == results[found[1]].cases[found[2]].result.object
            IN  /\ results' = [s \in S |->
                                  [results[s] EXCEPT !.cases =
                                      [i \in Cases(s) |->
                                          [results[s].cases[i] EXCEPT !.result =
                                              SetDiagnostics(@, object, r.userError)]]]]
                /\ testcaseDetailsCache' =
                       [name \in DOMAIN testcaseDetailsCache |->
                           SetDiagnostics(testcaseDetailsCache[name], object, r.userError)]
                /\ diagnostics' = [diagnostics EXCEPT !.pc = "report"]
                /\ UNCHANGED phase
       ELSE /\ diagnostics' = [diagnostics EXCEPT !.pc = "done"]
            /\ phase' = "returned"
            /\ UNCHANGED <<results, testcaseDetailsCache>>
    /\ UNCHANGED <<subtasks, outcomes, environments, error, subtaskOrder, judgeTasks>>

\* The judgeTestcase call of line 180 rejects: the catch of line 192.
DiagnosticsJudgeThrows ==
    /\ phase = "diagnostics"
    /\ diagnostics.pc = "judge"
    /\ Throw \in outcomes
    /\ diagnostics' = [diagnostics EXCEPT !.pc = "done"]
    /\ phase' = "returned"
    /\ UNCHANGED <<subtasks, outcomes, environments, error, subtaskOrder,
                   results, testcaseDetailsCache, judgeTasks>>

\* After await reportProgress() of line 188 runDiagnostics ends and
\* judge() returns (line 234).
DiagnosticsReported ==
    /\ phase = "diagnostics"
    /\ diagnostics.pc = "report"
    /\ diagnostics' = [diagnostics EXCEPT !.pc = "done"]
    /\ phase' = "returned"
    /\ UNCHANGED <<subtasks, outcomes, environments, error, subtaskOrder,
                   results, testcaseDetailsCache, judgeTasks>>

(***************************************************************************)
(* The runs explored.                                                      *)
(***************************************************************************)
MaxCases == 2

MaxTotalCases == 2

GraphSubtasks == 2

GraphDependencies == 1

SubtaskCounts == {1, 2}

Names == {"a", "b"}

Types == {"Minimum", "Multiple", "Summation"}

FullScores == {Zero, Num(50, 1), Num(100, 1)}

SeqsUpTo(X, n) == UNION {[1..m -> X] : m \in 0..n}

\* m cases with names of their own.
OwnCases(m) == [j \in 1..m |-> ToString(j)]

\* Every test data of n subtasks with the given choices.
TestDatas(n, types, scores, caseLists, dependencyLists) ==
    [0..(n - 1) -> [type : types,
                    score : scores,
                    cases : caseLists,
                    dependencies : dependencyLists]]

\* No dependency or one, on any subtask, the subtask itself and the index
\* n (out of range) included.
OneDependency(n) == {<< >>} \cup {<<d>> : d \in 0..n}

RECURSIVE CountCases(_, _)
CountCases(td, index) ==
    IF index >= NumSubtasks(td) THEN 0
    ELSE Len(td[index].cases) + CountCases(td, index + 1)

Small(datas) == {td \in datas : CountCases(td, 0) <= MaxTotalCases}

\* A TestcaseDetails as judgeTestcase builds it (config.ts, lines 221-232).
Details(type, time, memory, scoringRate, userError) ==
    [scoringRate |-> scoringRate, type |-> type,
     time |-> Num(time, 1), memory |-> Num(memory, 1),
     userError |-> userError, diagnostics |-> "", object |-> << >>]

\* The result of a run of 50 ms and 8192 KiB with the given scoringRate:
\* Accepted for 1, PartiallyCorrect between 0 and 1, WrongAnswer with a
\* message on stderr for 0, RuntimeError for a rate that is no number.
RunResult(rate) ==
    IF rate = One THEN Details("Accepted", 50, 8192, rate, "")
    ELSE IF rate = Zero THEN Details("WrongAnswer", 50, 8192, rate, "stderr")
    ELSE IF rate.k = "num" THEN Details("PartiallyCorrect", 50, 8192, rate, "")
    ELSE Details("RuntimeError", 50, 8192, rate, "stderr")

Outcomes(rates) == {IF r = Throw THEN Throw ELSE RunResult(r) : r \in rates}

\* The parameters are timeLimit = 1000 ms and memoryLimit = 8 MiB.
Environment(enabled, supportDiagnostics, maxTimeRatio, maxTime, maxMemoryRatio, maxMemory) ==
    [enabled |-> enabled, supportDiagnostics |-> supportDiagnostics,
     maxTimeRatio |-> maxTimeRatio, maxTime |-> Num(maxTime, 1),
     maxMemoryRatio |-> maxMemoryRatio, maxMemory |-> Num(maxMemory, 1),
     timeLimit |-> Num(1000, 1), memoryLimit |-> Num(8, 1)]

\* Diagnostics disabled, and enabled with limits of 1500 ms and 16384 KiB.
Gate ==
    {Environment(FALSE, TRUE, Num(2, 1), 1500, Num(2, 1), 32768),
     Environment(TRUE, TRUE, Num(2, 1), 1500, Num(2, 1), 32768)}

Start(datas, outcomeSets, environmentSets) ==
    /\ subtasks \in datas
    /\ outcomes \in outcomeSets
    /\ environments \in environmentSets
    /\ phase = "init"
    /\ error = ""
    /\ subtaskOrder = << >>
    /\ results = << >>
    /\ testcaseDetailsCache = << >>
    /\ judgeTasks = << >>
    /\ diagnostics = NoDiagnostics

\* Shared case names, every scoringRate a runner may report.
Init ==
    Start(Small(UNION {TestDatas(n, Types, {Num(100, 1)}, SeqsUpTo(Names, MaxCases), OneDependency(n)) :
                          n \in SubtaskCounts}),
          {Outcomes({Zero, One}), Outcomes({Zero, Throw}), Outcomes({Null, NaN})},
          {Gate})

\* Scenario S1: one Summation subtask of score 100 with 4 cases.
FourCases == {[s \in {0} |-> [type |-> "Summation", score |-> Num(100, 1),
                              cases |-> OwnCases(4), dependencies |-> << >>]]}

\* Every full score, scoringRates in [0, 1]; and scenario S1 with every
\* scoringRate 1.
InitScore ==
    \/ Start(FourCases, {Outcomes({One})}, {Gate})
    \/ Start(Small(UNION {TestDatas(n, Types, FullScores, {OwnCases(m) : m \in 0..MaxCases}, OneDependency(n)) :
                          n \in SubtaskCounts}),
          {Outcomes({Zero, Num(2, 5), One}), Outcomes({Zero, Throw})},
          {Gate})

\* A graph of Minimum subtasks, given by its dependency lists.
Graph(lists) ==
    [s \in 0..(Len(lists) - 1) |->
        [type |-> "Minimum", score |-> Num(100, 1), cases |-> << >>,
         dependencies |-> lists[s + 1]]]

\* Larger graphs: a subtask with two dependencies, a subtask sorted
\* before its index, a chain, a repeated dependency, a diamond, a cycle
\* of three and a cycle behind a subtask without dependencies.
LargerGraphs ==
    {Graph(<< << >>, << >>, <<0, 1>> >>),
     Graph(<< <<2, 1>>, <<2>>, << >> >>),
     Graph(<< << >>, <<0>>, <<1>> >>),
     Graph(<< << >>, <<0, 0>> >>),
     Graph(<< << >>, <<0>>, <<0>>, <<1, 2>> >>),
     Graph(<< <<2>>, <<0>>, <<1>> >>),
     Graph(<< << >>, <<0, 2>>, <<1>> >>)}

\* Every dependency graph within the bounds and the larger ones, one case
\* of its own for each subtask; subtask 0 has full score 50, the others
\* 100.
InitGraph ==
    Start({[s \in DOMAIN td |->
               [td[s] EXCEPT !.cases = <<ToString(s)>>,
                             !.score = IF s = 0 THEN Num(50, 1) ELSE Num(100, 1)]] :
              td \in LargerGraphs \cup
                     UNION {TestDatas(n, {"Minimum", "Summation"}, {Num(100, 1)}, {<< >>},
                                      SeqsUpTo(0..n, GraphDependencies) \cup {<<-1>>}) :
                               n \in 1..GraphSubtasks}},
          {Outcomes({Zero, Num(2, 5), One, Throw})},
          {Gate})

\* Runs of 50, 1200 and 1800 ms, with every type and scoringRate the scan
\* has to tell apart, and a second run without a message on stderr.
DiagnosticOutcomes ==
    {{Details("Accepted", 50, 8192, One, ""),
      Details("WrongAnswer", 1200, 8192, Zero, "stderr")},
     {Details("RuntimeError", 50, 8192, Num(2, 5), ""),
      Details("WrongAnswer", 1800, 8192, Num(2, 5), "stderr")},
     {Details("WrongAnswer", 50, 8192, Zero, "stderr"),
      Throw}}

\* The answers of the gate, and limits of 100 or 1500 ms and of 819.2,
\* 4096 or 16384 KiB: the ratio decides the time limit, and either the
\* ratio or maxMemory the memory limit.
DiagnosticEnvironments ==
    {Environment(FALSE, TRUE, Num(2, 1), 1500, Num(2, 1), 32768),
     Environment(TRUE, FALSE, Num(2, 1), 1500, Num(2, 1), 32768),
     Environment(TRUE, TRUE, Num(2, 1), 1500, Num(2, 1), 32768),
     Environment(TRUE, TRUE, Num(1, 10), 1500, Num(2, 1), 32768),
     Environment(TRUE, TRUE, Num(2, 1), 1500, Num(1, 10), 32768),
     Environment(TRUE, TRUE, Num(2, 1), 1500, Num(2, 1), 4096)}

\* A subtask as the test data declares it, full score 100.
Subtask(type, cases, dependencies) ==
    [type |-> type, score |-> Num(100, 1), cases |-> cases,
     dependencies |-> dependencies]

\* Subtask 0 depends on subtask 1, which runs first.
Reversed ==
    {[s \in {0, 1} |-> IF s = 0 THEN Subtask("Minimum", <<"a">>, <<1>>)
                                ELSE Subtask("Minimum", <<"b">>, << >>)]}

\* Subtasks without dependencies and a subtask declared before its
\* dependency, shared case names, every environment.
InitDiagnostics ==
    Start(Reversed \cup
          Small(UNION {TestDatas(n, {"Minimum", "Summation"}, {Num(100, 1)},
                                 SeqsUpTo(Names, MaxCases), {<< >>}) :
                          n \in SubtaskCounts}),
          DiagnosticOutcomes,
          {DiagnosticEnvironments})

Next ==
    \/ JudgeStart
    \/ \E s \in S : DependenciesDone(s)
    \/ \E s \in S : \E i \in Cases(s) : Started(s, i)
    \/ \E s \in S : \E i \in Cases(s) : \E r \in outcomes : JudgeTestcaseReturns(s, i, r)
    \/ \E s \in S : \E i \in Cases(s) : JudgeTestcaseThrows(s, i)
    \/ \E s \in S : \E i \in Cases(s) : CaseResumes(s, i)
    \/ \E s \in S : \E i \in Cases(s) : CaseReported(s, i)
    \/ \E s \in S : CaseTasksDone(s)
    \/ \E s \in S : SubtaskFinished(s)
    \/ \E env \in environments : JudgeJoined(env)
    \/ \E status \in CompilationStatuses : CompileWithDiagnosticsReturns(status)
    \/ CompileWithDiagnosticsThrows
    \/ \E r \in outcomes : DiagnosticsJudged(r)
    \/ DiagnosticsJudgeThrows
    \/ DiagnosticsReported

Spec == Init /\ [][Next]_vars

SpecScore == InitScore /\ [][Next]_vars

SpecGraph == InitGraph /\ [][Next]_vars

SpecDiagnostics == InitDiagnostics /\ [][Next]_vars

\* The steps that are bound to happen once judge() is called: a
\* continuation that is ready runs, and a call of judgeTestcase or of
\* compileWithDiagnostics returns or rejects.  Nothing obliges the runner
\* transport to call a started callback.
Progress ==
    \/ \E s \in S : DependenciesDone(s)
    \/ \E s \in S : \E i \in Cases(s) : \E r \in outcomes : JudgeTestcaseReturns(s, i, r)
    \/ \E s \in S : \E i \in Cases(s) : JudgeTestcaseThrows(s, i)
    \/ \E s \in S : \E i \in Cases(s) : CaseResumes(s, i)
    \/ \E s \in S : \E i \in Cases(s) : CaseReported(s, i)
    \/ \E s \in S : CaseTasksDone(s)
    \/ \E s \in S : SubtaskFinished(s)
    \/ \E env \in environments : JudgeJoined(env)
    \/ \E status \in CompilationStatuses : CompileWithDiagnosticsReturns(status)
    \/ CompileWithDiagnosticsThrows
    \/ \E r \in outcomes : DiagnosticsJudged(r)
    \/ DiagnosticsJudgeThrows
    \/ DiagnosticsReported

\* ENABLED <<Progress>>_vars, read off the guards of its actions: a call
\* is outstanding or a continuation is ready.
Ready ==
    \/ /\ phase = "running"
       /\ \/ \E s \in S :
                /\ judgeTasks[s].pc = "deps"
                /\ \A d \in Awaited(subtaskOrder, subtasks[s].dependencies, s) :
                       judgeTasks[d].pc = "done"
          \/ \E s \in S : \E i \in Cases(s) :
                judgeTasks[s].cases[i].pc \in {"call", "ret", "report"}
          \/ \E s \in S :
                /\ judgeTasks[s].pc = "join"
                /\ \A i \in Cases(s) : judgeTasks[s].cases[i].pc = "done"
          \/ \E s \in S : judgeTasks[s].pc = "final"
          \/ \A s \in S : judgeTasks[s].pc = "done"
    \/ phase = "diagnostics"

\* Weak fairness of Progress, WF_vars(Progress), written out as
\* []<>~ENABLED <<Progress>>_vars \/ []<><<Progress>>_vars with Ready for
\* the enabling condition; a step that changes vars stands for the step
\* of Progress (a step of Started is one too, which makes the condition
\* weaker, and there are finitely many of them in a run).
Fairness == []<>(~Ready) \/ []<><<TRUE>>_vars

\* Subtasks of several cases: cases run at once, a case name shared within
\* a subtask, and a chain of two subtasks that share a case name.
SeveralCases ==
    {[s \in {0} |-> Subtask("Summation", <<"a", "b">>, << >>)],
     [s \in {0} |-> Subtask("Multiple", <<"a", "a">>, << >>)],
     [s \in {0, 1} |-> IF s = 0 THEN Subtask("Minimum", <<"a", "b">>, << >>)
                                ELSE Subtask("Minimum", <<"a", "c">>, <<0>>)]}

\* The dependency graphs, and the subtasks of several cases.
InitFair ==
    \/ InitGraph
    \/ Start(SeveralCases, {Outcomes({Zero, One, Throw})}, {Gate})

SpecFair == InitFair /\ [][Next]_vars /\ Fairness

(***************************************************************************)
(* Vocabulary of the properties.                                           *)
(***************************************************************************)
Launched == phase \in {"running", "diagnostics", "returned"}

Skippable(s) == subtasks[s].type # "Summation"

Status(s, i) == results[s].cases[i].status

Rate(s, i) == results[s].cases[i].result.scoringRate

Called(s, i) == judgeTasks[s].cases[i].called

\* The number of judgeTestcase calls made for the case name.
CallsOf(name) ==
    Cardinality({p \in {<<s, i>> : s \in S, i \in 1..MaxCases} :
                    /\ p[2] \in Cases(p[1])
                    /\ subtasks[p[1]].cases[p[2]] = name
                    /\ Called(p[1], p[2])})

NoCalls == \A s \in S : \A i \in Cases(s) : ~Called(s, i)

HasFailed(s) == \E i \in Cases(s) : Status(s, i) = "Failed"

\* C1: every case name causes at most one call of judgeTestcase in a run,
\* whatever the number of referents and the interleaving.
C1_AtMostOneCall ==
    phase # "init" => \A s \in S : \A i \in Cases(s) : CallsOf(subtasks[s].cases[i]) <= 1

C3_NaNIffFailed ==
    phase = "returned" => \A s \in S : IsNaN(results[s].score) <=> HasFailed(s)

\* C4: with every scoringRate in [0, 1] and full scores >= 0, the final
\* score of every subtask is NaN or lies in [0, subtask.score].
C4_ScoreInRange ==
    (/\ phase = "returned"
     /\ \A s \in S : Le(Zero, subtasks[s].score)
     /\ \A s \in S : \A i \in Cases(s) : Le(Zero, Rate(s, i)) /\ Le(Rate(s, i), One))
    => \A s \in S :
           \/ IsNaN(results[s].score)
           \/ Le(Zero, results[s].score) /\ Le(results[s].score, subtasks[s].score)

C4_Witness ==
    /\ phase = "returned"
    /\ \E s \in S :
           /\ subtasks[s].type = "Summation" /\ Len(subtasks[s].cases) = 2
           /\ Rate(s, 1) = Num(2, 5) /\ Rate(s, 2) = One
           /\ subtasks[s].score = Num(50, 1)
           /\ results[s].score = Num(35, 1)

DepSet(s) == {subtasks[s].dependencies[j] : j \in 1..Len(subtasks[s].dependencies)}

\* C5: the final score of a Minimum subtask with dependencies is not above
\* (dependency score / dependency full score) x subtask.score for any of
\* its dependencies, nor above subtask.score (NaN, the score of a subtask
\* with a Failed case, is above nothing and bounds nothing).
C5_MinPropagation ==
    phase = "returned" =>
        \A s \in S :
            (subtasks[s].type = "Minimum" /\ DepSet(s) # {}) =>
                /\ ~Gt(results[s].score, subtasks[s].score)
                /\ \A d \in DepSet(s) :
                       ~Gt(results[s].score,
                           Mul(Div(results[d].score, subtasks[d].score), subtasks[s].score))

\* Scenario S4: A (score 50, ratio 0.4) ends with 20, B (score 100,
\* dependencies [A], ratio 1) with 40.
C5_Witness ==
    /\ phase = "returned"
    /\ NumSubtasks(subtasks) = 2
    /\ subtasks[0].score = Num(50, 1) /\ results[0].score = Num(20, 1)
    /\ subtasks[1].dependencies = <<0>> /\ subtasks[1].score = Num(100, 1)
    /\ Status(1, 1) = "Done" /\ Rate(1, 1) = One
    /\ results[1].score = Num(40, 1)

ZeroLike(x) == x.k \in {"null", "undef"} \/ IsNaN(x) \/ x = Zero

\* C6: in a skippable subtask, once case i is Done with scoringRate 0, null
\* or NaN, no case j > i is ever evaluated, and each of them is Skipped
\* once the runner has gone through its cases.
C6_ZeroSkipsRest ==
    phase # "init" =>
        \A s \in S : \A i \in Cases(s) :
            (Skippable(s) /\ Status(s, i) = "Done" /\ ZeroLike(Rate(s, i))) =>
                \A j \in Cases(s) : j > i =>
                    /\ ~Called(s, j)
                    /\ Status(s, j) \in {"Waiting", "Skipped"}
                    /\ judgeTasks[s].pc \in {"final", "done"} => Status(s, j) = "Skipped"

C6_Witness ==
    /\ phase = "returned"
    /\ \E s \in S :
           /\ subtasks[s].type = "Minimum" /\ Len(subtasks[s].cases) = 2
           /\ Status(s, 1) = "Done" /\ Rate(s, 1) = Zero
           /\ Status(s, 2) = "Skipped" /\ ~Called(s, 2)
           /\ results[s].score = Zero

\* The dependency graph, read off the test data.
WellFormed ==
    \A s \in S :
        DepSet(s) # {} =>
            /\ subtasks[s].type = "Minimum"
            /\ \A d \in DepSet(s) : d \in S /\ subtasks[d].type = "Minimum"

RECURSIVE Ancestors(_, _)
Ancestors(set, k) ==
    IF k = 0 THEN set
    ELSE Ancestors(set \cup {d \in S : \E x \in set \cap S : d \in DepSet(x)}, k - 1)

HasCycle == \E s \in S : s \in Ancestors(DepSet(s), NumSubtasks(subtasks))

\* C7: for a well-formed acyclic graph getSubtaskOrder returns a
\* permutation of the subtask indices with every dependency before its
\* dependents.
C7_TopologicalOrder ==
    (phase # "init" /\ WellFormed /\ ~HasCycle) =>
        /\ error = "" /\ Launched
        /\ Len(subtaskOrder) = NumSubtasks(subtasks)
        /\ {subtaskOrder[k] : k \in 1..Len(subtaskOrder)} = S
        /\ \A s \in S : \A d \in DepSet(s) :
               Position(subtaskOrder, d) < Position(subtaskOrder, s)

C7_Witness ==
    /\ Launched
    /\ NumSubtasks(subtasks) = 3
    /\ subtasks[0].dependencies = <<2, 1>>
    /\ subtasks[1].dependencies = <<2>>
    /\ subtaskOrder = <<2, 1, 0>>

\* C8 as stated: every graph with a cycle makes judge() throw 'loop
\* detected' without a call of judgeTestcase.
C8_CycleIsLoopDetected ==
    (phase # "init" /\ HasCycle) => (phase = "fatal" /\ error = MsgLoop /\ NoCalls)

\* C8 amended: every graph with a cycle makes judge() throw a
\* configuration error without a call of judgeTestcase; the error is 'loop
\* detected' when the graph is well-formed otherwise.
C8_CycleIsFatal ==
    (phase # "init" /\ HasCycle) =>
        /\ phase = "fatal" /\ error # "" /\ NoCalls
        /\ WellFormed => error = MsgLoop

C8_Witness ==
    /\ phase = "fatal" /\ error = MsgLoop /\ NoCalls
    /\ NumSubtasks(subtasks) = 2
    /\ subtasks[0].dependencies = <<1>> /\ subtasks[1].dependencies = <<0>>

\* C9: a dependency list on a subtask that is not Minimum, or a dependency
\* on a subtask that is not Minimum or on an index out of range, makes
\* judge() throw a configuration error: no call of judgeTestcase, every
\* case still Waiting.
C9_IllFormedIsFatal ==
    (phase # "init" /\ ~WellFormed) =>
        /\ phase = "fatal" /\ error \in {MsgType, MsgRange}
        /\ NoCalls
        /\ \A s \in S : \A i \in Cases(s) : Status(s, i) = "Waiting"

C9_Witness ==
    /\ phase = "fatal" /\ error = MsgType /\ NoCalls
    /\ \E s \in S : subtasks[s].type = "Summation" /\ DepSet(s) # {} /\ DepSet(s) \subseteq S
    /\ \A s \in S : \A d \in DepSet(s) : d \in S /\ subtasks[d].type = "Minimum"

\* The least of 1 and the ratios of the dependencies, as the scores are now.
RatiosNow(s) ==
    {One} \cup {r \in {Div(results[d].score, subtasks[d].score) : d \in DepSet(s)} : ~IsNaN(r)}

MinScoreNow(s) ==
    Mul(CHOOSE x \in RatiosNow(s) : \A y \in RatiosNow(s) : ~Lt(y, x), subtasks[s].score)

\* C10: no case of a subtask is evaluated or marked Skipped before the
\* runners of all its dependencies have ended, and the minScore the runner
\* has computed is the one the scores of its dependencies give now.
C10_AfterDependencies ==
    Launched =>
        \A s \in S :
            DepSet(s) # {} =>
                /\ (\/ judgeTasks[s].pc \notin {"idle", "deps"}
                    \/ \E i \in Cases(s) : Status(s, i) # "Waiting" \/ Called(s, i))
                   => /\ \A d \in DepSet(s) : judgeTasks[d].pc = "done"
                      /\ judgeTasks[s].minScore = MinScoreNow(s)

C10_Witness ==
    /\ phase = "running"
    /\ NumSubtasks(subtasks) = 3
    /\ subtasks[2].dependencies = <<0, 1>>
    /\ results[0].score = Num(20, 1) /\ results[1].score = Num(100, 1)
    /\ judgeTasks[2].pc = "case" /\ Status(2, 1) = "Running"
    /\ judgeTasks[2].minScore = Num(40, 1)

Terminal(status) == status \in {"Done", "Failed", "Skipped"}

\* C11: once a case has status Done, Failed or Skipped, no step of the run
\* changes its status again, so no snapshot given to reportProgress and no
\* returned result shows it otherwise, in every interleaving of the started
\* callbacks and the results.
C11_StatusMonotonic ==
    [][phase # "init" =>
           \A s \in S : \A i \in Cases(s) :
               Terminal(Status(s, i)) => results'[s].cases[i].status = Status(s, i)]_vars

C11_Witness ==
    /\ phase = "running"
    /\ \E s \in S : \E i, j \in Cases(s) :
           /\ subtasks[s].type = "Summation"
           /\ Status(s, i) = "Done" /\ judgeTasks[s].cases[i].pc = "done"
           /\ Status(s, j) = "Running"

\* C12: a Minimum subtask (with at least one case: the score calculator
\* is not defined on an empty Minimum subtask) whose minScore = minRatio x
\* subtask.score is <= 0 has every case Skipped, no call of judgeTestcase
\* and the score 0, from the moment its runner has computed minScore.
C12_UpfrontSkip ==
    Launched =>
        \A s \in S :
            (/\ subtasks[s].type = "Minimum"
             /\ Cases(s) # {}
             /\ judgeTasks[s].pc \notin {"idle", "deps"}
             /\ Le(judgeTasks[s].minScore, Zero))
            => /\ \A i \in Cases(s) : Status(s, i) = "Skipped" /\ ~Called(s, i)
               /\ results[s].score = Zero

\* Scenario S5: A ends with score 0, and B (dependencies [A]) is skipped
\* before any of its cases runs.
C12_Witness ==
    /\ phase = "returned"
    /\ NumSubtasks(subtasks) = 2
    /\ Len(subtasks[0].cases) = 1 /\ Len(subtasks[1].cases) = 1
    /\ subtasks[0].score = Num(50, 1) /\ Status(0, 1) = "Done" /\ results[0].score = Zero
    /\ subtasks[1].dependencies = <<0>> /\ subtasks[1].score = Num(100, 1)
    /\ judgeTasks[1].minScore = Zero
    /\ Status(1, 1) = "Skipped" /\ ~Called(1, 1)
    /\ results[1].score = Zero

\* The referents of the case names: <<s, i>> for case i of subtask s.
Referents == UNION {{<<s, i>> : i \in Cases(s)} : s \in S}

NameOf(p) == subtasks[p[1]].cases[p[2]]

\* The fields of a TestcaseDetails, whichever object holds them.
Fields(details) == [details EXCEPT !.object = << >>]

\* C13: two referents of one case name that are both Done hold the same
\* TestcaseDetails, whatever the runner returns and whether the referents
\* are in one subtask or in two, concurrent or not.
C13_SameResult ==
    phase # "init" =>
        \A p, q \in Referents :
            (NameOf(p) = NameOf(q) /\ Status(p[1], p[2]) = "Done" /\ Status(q[1], q[2]) = "Done")
            => Fields(results[p[1]].cases[p[2]].result) = Fields(results[q[1]].cases[q[2]].result)

\* C14: for a case name with several referents the started callback fires
\* once, for the first subscriber, and no later subscriber enters Running:
\* in particular no two referents of one name are Running together.
C14_OneRunning ==
    phase # "init" =>
        \A p, q \in Referents :
            (NameOf(p) = NameOf(q) /\ Status(p[1], p[2]) = "Running" /\ Status(q[1], q[2]) = "Running")
            => p = q

Valid == WellFormed /\ ~HasCycle

\* C15: for a valid dependency graph, when every call eventually returns
\* or rejects, judge() never throws, and once called it eventually returns
\* a result in which every case is Done, Skipped or Failed.
C15_Returns ==
    /\ [](Valid => phase # "fatal")
    /\ (Valid /\ phase = "running")
           ~> (phase = "returned" /\ \A s \in S : \A i \in Cases(s) : Terminal(Status(s, i)))

\* A run in which a call has rejected and another has returned.
C15_Witness ==
    /\ phase = "returned"
    /\ \E s \in S : \E i, j \in Cases(s) :
           /\ subtasks[s].type = "Summation"
           /\ Status(s, i) = "Failed" /\ Status(s, j) = "Done"

\* Every subtask runner has completed: judge() is past its join.
Joined ==
    \/ phase = "running" /\ \A s \in S : judgeTasks[s].pc = "done"
    \/ phase = "diagnostics"

\* C16: from the moment all subtask runners have completed, no step (the
\* gate, the driver's compile and second run, whether they succeed, fail
\* or throw) changes a case's status, a field of its result other than
\* diagnostics, or a subtask's score, and judge() does not throw; a
\* diagnostics string changes only in the result of the selected case,
\* which the cases served that same result from the cache hold as well.
C16_VerdictKept ==
    [][Joined =>
          /\ phase' # "fatal"
          /\ \A s \in S :
                 /\ results'[s].score = results[s].score
                 /\ \A i \in Cases(s) :
                        LET old == results[s].cases[i]
                            new == results'[s].cases[i]
                            found == diagnostics.diagnosticCase
                        IN  /\ new.status = old.status
                            /\ [new.result EXCEPT !.diagnostics = ""]
                                   = [old.result EXCEPT !.diagnostics = ""]
                            /\ new.result.diagnostics # old.result.diagnostics =>
                                   /\ found # << >>
                                   /\ NameOf(<<s, i>>) = NameOf(found)
                                   /\ old.result.object
                                          = results[found[1]].cases[found[2]].result.object]_vars

\* Scenario S7: a WrongAnswer of 50 ms and 8192 KiB was compiled and run
\* again, and the stderr of the second run is its diagnostics.
C16_Witness ==
    /\ phase = "returned"
    /\ diagnostics.compilation = "Done"
    /\ diagnostics.judged = 1
    /\ LET found == diagnostics.diagnosticCase
           details == results[found[1]].cases[found[2]].result
       IN  /\ Status(found[1], found[2]) = "Done"
           /\ details.type = "WrongAnswer"
           /\ details.time = Num(50, 1) /\ details.memory = Num(8192, 1)
           /\ details.scoringRate = Zero
           /\ details.diagnostics = "stderr"
           /\ results[found[1]].score = Zero

\* C17: when the diagnostics compilation does not succeed (it resolves
\* with a status other than Done, or it throws), the driver makes no
\* judgeTestcase call and no result gets a diagnostics string.
C17_CompileFailureAbandons ==
    diagnostics.compilation \notin {"", "Done"} =>
        /\ diagnostics.judged = 0
        /\ \A p \in Referents : results[p[1]].cases[p[2]].result.diagnostics = ""

\* The recorded result of a referent qualifies for diagnostics under the
\* limits of the environment.
Eligible(p, env) ==
    LET details == results[p[1]].cases[p[2]].result
    IN  /\ details.type \in {"WrongAnswer", "RuntimeError"}
        /\ Le(details.time, Mul(env.maxTimeRatio, env.timeLimit))
        /\ Le(details.time, env.maxTime)
        /\ Le(details.memory, Mul(Mul(env.maxMemoryRatio, env.memoryLimit), Num(1024, 1)))
        /\ Le(details.memory, env.maxMemory)

\* p comes before q in declared subtask order, then declared case order.
Before(p, q) == p[1] < q[1] \/ (p[1] = q[1] /\ p[2] < q[2])

\* C18: the scan selects the first referent, in declared subtask order
\* then declared case order, whose recorded result has type WrongAnswer or
\* RuntimeError, time <= min(maxTimeRatio * timeLimit, maxTime) and
\* memory <= min(maxMemoryRatio * memoryLimit * 1024, maxMemory); when no
\* referent qualifies, nothing is compiled or judged again.
C18_FirstEligible ==
    diagnostics.runs = 1 =>
        LET env == diagnostics.environment
            found == diagnostics.diagnosticCase
        IN  IF \E p \in Referents : Eligible(p, env)
            THEN /\ found \in Referents
                 /\ Eligible(found, env)
                 /\ \A p \in Referents : Eligible(p, env) => ~Before(p, found)
            ELSE /\ found = << >>
                 /\ diagnostics.compilation = ""
                 /\ diagnostics.judged = 0
                 /\ phase = "returned"

\* A WrongAnswer beyond the limits is passed over and a case after it is
\* selected.
C18_Witness ==
    /\ diagnostics.runs = 1
    /\ diagnostics.diagnosticCase \in Referents
    /\ \E p \in Referents :
           /\ Before(p, diagnostics.diagnosticCase)
           /\ results[p[1]].cases[p[2]].result.type = "WrongAnswer"
           /\ ~Eligible(p, diagnostics.environment)

\* C19: runDiagnostics is invoked at most once in a run, only when
\* diagnostics is enabled and supportDiagnostics() is true, and only after
\* every subtask runner has completed, when no case is Waiting or Running.
C19_DriverGate ==
    /\ diagnostics.runs <= 1
    /\ diagnostics.runs = 1 =>
           /\ diagnostics.environment.enabled
           /\ diagnostics.environment.supportDiagnostics
           /\ \A s \in S : judgeTasks[s].pc = "done"
           /\ \A p \in Referents : Terminal(Status(p[1], p[2]))

\* The driver has been invoked after a run with a Failed and a Done case.
C19_Witness ==
    /\ diagnostics.runs = 1
    /\ \E p, q \in Referents :
           /\ Status(p[1], p[2]) = "Failed"
           /\ Status(q[1], q[2]) = "Done"

\* The product and the sum of the scoringRates of the first n cases of
\* subtask s.
RECURSIVE RateProduct(_, _)
RateProduct(s, n) == IF n = 0 THEN One ELSE Mul(RateProduct(s, n - 1), Rate(s, n))

RECURSIVE RateSum(_, _)
RateSum(s, n) == IF n = 0 THEN Zero ELSE Add(RateSum(s, n - 1), Rate(s, n))

\* score(mode, ratios) of the spec (4.B) over the scoringRates of subtask s.
ModeScore(s) ==
    LET n == Len(subtasks[s].cases)
    IN  IF subtasks[s].type = "Minimum"
        THEN CHOOSE m \in {Rate(s, i) : i \in Cases(s)} : \A i \in Cases(s) : Le(m, Rate(s, i))
        ELSE IF subtasks[s].type = "Multiple" THEN RateProduct(s, n)
        ELSE Div(RateSum(s, n), Num(n, 1))

\* C20: at return, a subtask without a Failed case has the score
\* score(mode, ratios) x subtask.score over the scoringRates of its cases (1
\* for a Skipped case), Minimum = min, Multiple = product, Summation =
\* mean, and not above minScore for a Minimum subtask.  The minimum and the
\* mean are those of at least one case (spec 4.B: empty -> undefined).
C20_FinalScore ==
    phase = "returned" =>
        \A s \in S :
            (~HasFailed(s) /\ (Cases(s) # {} \/ subtasks[s].type = "Multiple")) =>
                LET weighted == Mul(ModeScore(s), subtasks[s].score)
                    minScore == judgeTasks[s].minScore
                IN  results[s].score =
                        IF subtasks[s].type = "Minimum" /\ Lt(minScore, weighted)
                        THEN minScore
                        ELSE weighted

\* Scenario S1: a Summation subtask of score 100 with 4 cases of
\* scoringRate 1 ends with score 100 and every case Done.
C20_Witness ==
    /\ phase = "returned"
    /\ NumSubtasks(subtasks) = 1
    /\ subtasks[0].type = "Summation" /\ subtasks[0].score = Num(100, 1)
    /\ Len(subtasks[0].cases) = 4
    /\ \A i \in Cases(0) : Status(0, i) = "Done" /\ Rate(0, i) = One
    /\ results[0].score = Num(100, 1)

\* The evaluation of case i of subtask s has begun: its runner has asked
\* the wrapper for it.
Begun(s, i) == judgeTasks[s].cases[i].pc # "idle"

\* The evaluation of case i of subtask s is in flight: begun, and its
\* runner has not yet gone on after it.
InFlight(s, i) == judgeTasks[s].cases[i].pc \in {"call", "ret", "report"}

\* C21: in a Minimum or Multiple subtask the evaluation of case j begins
\* only once case j - 1 is Done or Failed and no longer in flight, so the
\* cases begin in declared order and at most one of them is in flight.
C21_OneAtATime ==
    Launched =>
        \A s \in S :
            Skippable(s) =>
                /\ \A j \in Cases(s) :
                       (Begun(s, j) /\ j > 1) =>
                           /\ Status(s, j - 1) \in {"Done", "Failed"}
                           /\ ~InFlight(s, j - 1)
                /\ \A i, j \in Cases(s) : (InFlight(s, i) /\ InFlight(s, j)) => i = j

\* The second case of a skippable subtask is being judged after the first
\* one is Done.
C21_Witness ==
    /\ phase = "running"
    /\ \E s \in S :
           /\ Skippable(s) /\ Len(subtasks[s].cases) = 2
           /\ Status(s, 1) = "Done"
           /\ judgeTasks[s].cases[2].pc = "call" /\ Status(s, 2) = "Running"

\* C22: in a Summation subtask every case is begun as soon as the runner
\* starts, so before any of them completes; no case is ever Skipped; and
\* in the returned result every case is Done or Failed, whatever the
\* other cases ended with (Failed, or a scoringRate of 0).
C22_AllLaunched ==
    Launched =>
        \A s \in S :
            subtasks[s].type = "Summation" =>
                /\ \A i \in Cases(s) : Begun(s, i) /\ Status(s, i) # "Skipped"
                /\ phase = "returned" =>
                       \A i \in Cases(s) : Status(s, i) \in {"Done", "Failed"}

\* A Summation subtask whose first case is Failed and whose second case
\* is Done with scoringRate 0, each by a call of its own.
C22_Witness ==
    /\ phase = "returned"
    /\ \E s \in S :
           /\ subtasks[s].type = "Summation" /\ Len(subtasks[s].cases) = 2
           /\ Status(s, 1) = "Failed"
           /\ Status(s, 2) = "Done" /\ Rate(s, 2) = Zero
           /\ Called(s, 1) /\ Called(s, 2)

\* C23: as long as no case is Done or Failed, the score of a subtask is
\* subtask.score for Minimum and Multiple and 0 for Summation; and a step
\* that leaves a subtask without a Failed case does not raise the score
\* of a Minimum or Multiple subtask nor lower the score of a Summation
\* subtask (scoringRates in [0, 1]).  The minimum and the mean are those
\* of at least one case (spec 4.B: empty -> undefined).
C23_Refined ==
    /\ [](phase # "init" /\ (\A r \in S : \A i \in Cases(r) : Status(r, i) \notin {"Done", "Failed"})
             => \A s \in S :
                    (Cases(s) # {} \/ subtasks[s].type = "Multiple") =>
                        results[s].score =
                            IF subtasks[s].type = "Summation" THEN Zero ELSE subtasks[s].score)
    /\ [][phase # "init" =>
             \A s \in S :
                 (\A i \in Cases(s) : results'[s].cases[i].status # "Failed") =>
                     IF subtasks[s].type = "Summation"
                     THEN ~Lt(results'[s].score, results[s].score)
                     ELSE ~Gt(results'[s].score, results[s].score)]_vars

\* A Summation subtask of score 100 half way: one of its two cases is Done
\* with scoringRate 1 and the score is 50; and a Minimum subtask whose
\* score has come down from 50 to 20.
C23_Witness ==
    /\ phase = "running"
    /\ NumSubtasks(subtasks) = 2
    /\ subtasks[0].type = "Summation" /\ subtasks[0].score = Num(100, 1)
    /\ Len(subtasks[0].cases) = 1 /\ Len(subtasks[1].cases) = 1
    /\ Status(0, 1) = "Done" /\ Rate(0, 1) = Num(2, 5) /\ results[0].score = Num(40, 1)
    /\ subtasks[1].type = "Minimum" /\ subtasks[1].score = Num(50, 1)
    /\ Status(1, 1) = "Done" /\ Rate(1, 1) = Num(2, 5) /\ results[1].score = Num(20, 1)

\* The final score of subtask s over its full score.
Ratio(s) == Div(results[s].score, subtasks[s].score)

\* Subtasks a, b, c make a chain: b depends on a and c on b.
Chain(a, b, c) == a \in DepSet(b) /\ b \in DepSet(c)

\* C24: at return, in every chain of Minimum subtasks a -> b -> c with
\* positive full scores and no Failed case, the ratio (score / full score)
\* of c is not above that of b, which is not above that of a.
C24_Transitive ==
    phase = "returned" =>
        \A a, b, c \in S :
            (/\ Chain(a, b, c)
             /\ \A s \in {a, b, c} : Gt(subtasks[s].score, Zero) /\ ~HasFailed(s))
            => Le(Ratio(c), Ratio(b)) /\ Le(Ratio(b), Ratio(a))

\* A (score 50, scoringRate 2/5) ends with 20; B and C (score 100,
\* scoringRate 1) both end with 40: B passes its clamped score on.
C24_Witness ==
    /\ phase = "returned"
    /\ NumSubtasks(subtasks) = 3
    /\ Chain(0, 1, 2) /\ DepSet(0) = {} /\ DepSet(1) = {0} /\ DepSet(2) = {1}
    /\ \A s \in S : Status(s, 1) = "Done"
    /\ Rate(0, 1) = Num(2, 5) /\ results[0].score = Num(20, 1)
    /\ Rate(1, 1) = One /\ results[1].score = Num(40, 1)
    /\ Rate(2, 1) = One /\ results[2].score = Num(40, 1)

\* The least of 1 and the ratios of the dependencies of s that have no
\* Failed case.
Cap(s) ==
    LET ratios == {One} \cup {Ratio(d) : d \in {e \in DepSet(s) : ~HasFailed(e)}}
    IN  CHOOSE x \in ratios : \A y \in ratios : Le(x, y)

\* C25: a Minimum subtask with a dependency that has a Failed case (final
\* score NaN) computes minScore from 1 and its other dependencies only;
\* when that is above 0 its first case is evaluated, not Skipped; and
\* at return its score is the least of its own ratio and that cap, times
\* subtask.score, when none of its own cases is Failed.
C25_NaNIgnored ==
    Launched =>
        \A s \in S :
            (/\ judgeTasks[s].pc \notin {"idle", "deps"}
             /\ \E d \in DepSet(s) : HasFailed(d))
            => LET capped == Mul(Cap(s), subtasks[s].score)
                   own == Mul(ModeScore(s), subtasks[s].score)
               IN  /\ judgeTasks[s].minScore = capped
                   /\ Gt(capped, Zero) =>
                          \A i \in Cases(s) : i = 1 => Begun(s, i) /\ Status(s, i) # "Skipped"
                   /\ (phase = "returned" /\ ~HasFailed(s) /\ Cases(s) # {}) =>
                          results[s].score = IF Lt(capped, own) THEN capped ELSE own

\* A has a Failed case and the score NaN; B (dependencies [A], score 100)
\* was judged and ends Done with the score 100.
C25_Witness ==
    /\ phase = "returned"
    /\ NumSubtasks(subtasks) = 2
    /\ DepSet(1) = {0}
    /\ Status(0, 1) = "Failed" /\ IsNaN(results[0].score)
    /\ Called(1, 1) /\ Status(1, 1) = "Done" /\ Rate(1, 1) = One
    /\ judgeTasks[1].minScore = Num(100, 1)
    /\ results[1].score = Num(100, 1)

\* C26: a Minimum subtask of full score 0 is skipped as soon as its
\* runner starts, with or without dependencies: every case is Skipped and
\* none is evaluated.  A Multiple or Summation subtask of full score 0
\* evaluates its cases: the first case of a Multiple subtask and every
\* case of a Summation subtask is begun at once and is Done or Failed at
\* return.
C26_ZeroFullScore ==
    Launched =>
        \A s \in S :
            (subtasks[s].score = Zero /\ judgeTasks[s].pc \notin {"idle", "deps"}) =>
                \A i \in Cases(s) :
                    IF subtasks[s].type = "Minimum"
                    THEN Status(s, i) = "Skipped" /\ ~Begun(s, i) /\ ~Called(s, i)
                    ELSE (subtasks[s].type = "Summation" \/ i = 1) =>
                             /\ Begun(s, i)
                             /\ phase = "returned" => Status(s, i) \in {"Done", "Failed"}

\* Two subtasks of full score 0 without dependencies: the case of the
\* Minimum one is Skipped without a call, that of the Multiple one is Done.
C26_Witness ==
    /\ phase = "returned"
    /\ NumSubtasks(subtasks) = 2
    /\ \A s \in S : subtasks[s].score = Zero /\ DepSet(s) = {} /\ Len(subtasks[s].cases) = 1
    /\ subtasks[0].type = "Minimum" /\ Status(0, 1) = "Skipped" /\ ~Called(0, 1)
    /\ subtasks[1].type = "Multiple" /\ Status(1, 1) = "Done" /\ Called(1, 1)

====
